---- MODULE Spec2Model ----
(***************************************************************************)
(* Ledger store of task-manager-bot (cogs/central_bank/cog_db_functions.py *)
(* over database/core.py).  Every ledger call opens its own SQLite         *)
(* connection (sqlite3.connect(path, timeout=10), legacy transaction       *)
(* control): the first INSERT/UPDATE of a call opens an implicit           *)
(* transaction and takes the database write lock; the call's statements    *)
(* work on a private copy until commit() publishes it; rollback() or a     *)
(* close() without commit discards it.  A call that cannot get the write   *)
(* lock waits and, when the 10 s busy timeout expires, gets an             *)
(* OperationalError.  Each call is a process of the model; each statement  *)
(* is a step.                                                              *)
(***************************************************************************)
EXTENDS Integers, Sequences, FiniteSets, TLC

\* ---------------------------------------------------------------- bounds
NumProcs == 2      \* concurrent callers (connections)
MaxCalls == 2      \* ledger calls begun in one behaviour
MaxAmount == 2     \* largest amount / delta passed to a call
InitMax == 2       \* largest balance stored before the first call

Procs == 1..NumProcs
Accounts == {1, 2}

\* Denomination names are sequences of characters: "tk" and "Tk" differ
\* only in letter case.
NameT == <<"t", "k">>
NameTUpper == <<"T", "k">>
InputNames == {NameT, NameTUpper}

\* The arguments the callers pass.
Deltas == {0 - MaxAmount, 0 - 1, MaxAmount}
TransferAmounts == 0..MaxAmount

\* str.lower() on one character.
LowerChar(ch) ==
    CASE ch = "T" -> "t"
      [] ch = "K" -> "k"
      [] ch = "G" -> "g"
      [] OTHER -> ch

IsUpperChar(ch) == ch \in {"T", "K", "G"}

\* Variant: the name is used as given.
Lower_AsGiven(s) == s
\* str.lower(): every character lower-cased, length kept.
Lower(s) == [i \in DOMAIN s |-> LowerChar(s[i])]

HasUpper(s) == \E i \in DOMAIN s : IsUpperChar(s[i])

NoRow == <<>>          \* cursor.fetchone() returning None; a row is <<amount>>
NoCall == [op |-> "none", a |-> 0, b |-> 0, n |-> 0, cur |-> <<>>, cmd |-> ""]
EmptyDb == [users |-> {}, bal |-> <<>>, usage |-> <<>>]

\* ------------------------------------------------------- SQL statements
\* A database value is [users |-> set of user_id, bal |-> function from
\* <<user_id, currency>> (the primary key of balances) to amount, usage |->
\* function from command_name (the primary key of command_usage) to
\* usage_count].

\* Variant: the users row is not inserted.
EnsureUserExists_Skipped(d, u) == d
\* INSERT OR IGNORE INTO users (user_id) VALUES (?)
EnsureUserExists(d, u) == [d EXCEPT !.users = @ \cup {u}]

HasRow(d, u, c) == <<u, c>> \in DOMAIN d.bal

\* SELECT amount FROM balances WHERE user_id = ? AND currency = ?; fetchone()
SelectAmount(d, u, c) == IF HasRow(d, u, c) THEN <<d.bal[<<u, c>>]>> ELSE NoRow

\* INSERT [OR IGNORE] INTO balances (user_id, currency, amount) VALUES (?, ?, 0)
InsertZeroRow(d, u, c) ==
    IF HasRow(d, u, c) THEN d
    ELSE [d EXCEPT !.bal = (<<u, c>> :> 0) @@ @]

\* UPDATE balances SET amount = amount + ? WHERE user_id = ? AND currency = ?
AddAmount(d, u, c, x) ==
    IF HasRow(d, u, c) THEN [d EXCEPT !.bal[<<u, c>>] = @ + x] ELSE d

\* The debit and the credit of transfer_currency.
Debit(d, u, c, n) == AddAmount(d, u, c, 0 - n)

\* Variant: the credit UPDATE has no effect.
Credit_Lost(d, u, c, n) == d
\* Variant: the credit is applied twice.
Credit_Twice(d, u, c, n) == AddAmount(d, u, c, n + n)
Credit(d, u, c, n) == AddAmount(d, u, c, n)

\* Variant: only an empty balance is refused (current_balance <= 0).
Insufficient_OnlyEmpty(current, n) == current <= 0
\* Variant: the comparison is off by one (current_balance + 1 < amount).
Insufficient_OffByOne(current, n) == current + 1 < n
\* current_balance < amount
Insufficient(current, n) == current < n

\* The amount of a row, 0 when the row is absent.
Amount0(d, u, c) == IF HasRow(d, u, c) THEN d.bal[<<u, c>>] ELSE 0

\* The command names the usage counters are kept for.
CommandNames == {"pay", "stats"}

\* The count of a command, 0 when it has no row.
Count0(d, name) == IF name \in DOMAIN d.usage THEN d.usage[name] ELSE 0

\* Variant: the conflict branch stores 1 again (DO UPDATE SET usage_count = 1).
UpsertAddOne_Overwrites(d, name) == [d EXCEPT !.usage = (name :> 1) @@ @]
\* INSERT INTO command_usage (command_name, usage_count) VALUES (?, 1)
\* ON CONFLICT(command_name) DO UPDATE SET usage_count = usage_count + 1
UpsertAddOne(d, name) ==
    IF name \in DOMAIN d.usage
       THEN [d EXCEPT !.usage[name] = @ + 1]
       ELSE [d EXCEPT !.usage = (name :> 1) @@ @]

\* DELETE FROM command_usage
DeleteAll(d) == [d EXCEPT !.usage = <<>>]

\* SELECT command_name, usage_count FROM command_usage; fetchall(); the
\* dict comprehension over the rows.
SelectAll(d) == d.usage

\* ------------------------------------------------------------------ state
VARIABLES
    db,      \* the committed database file
    lock,    \* the processes inside a write transaction (holding the write lock)
    pc,      \* pc[p]: where process p stands in its call
    call,    \* call[p]: the operation and arguments of p's call
    txn,     \* txn[p]: p's uncommitted view of the database while in a transaction
    ret,     \* ret[p]: balance (get_balance) / success (transfer_currency)
    err,     \* err[p]: "none", or the place of p's call where something raised
    snap,    \* snap[p]: the committed database when p's transaction began (history)
    post,    \* post[p]: the committed database when p's transaction ended (history)
    seen,    \* seen[p]: the committed amounts the row of p's call has had since the call began (history)
    serial,  \* the calls committed so far applied one after the other to init0 (history)
    tally,   \* per balance key, the amounts committed calls moved (history)
    init0,   \* the committed database before the first call (history)
    calls,   \* number of calls begun
    \* main.py, TaskManagerBot.load_all_cogs
    cogs_dir,      \* the cogs directory: "missing", "unreadable" or its entries
    broken,        \* the module names whose load_extension raises
    lpc,           \* where load_all_cogs stands
    todo,          \* the items of the for loop not yet visited
    attempted,     \* the names load_extension was called with, in order
    status,        \* per attempted name, the line logged: "loaded" or "failed"
    loaded_count,  \* loaded_count
    \* the cogs' _load_config
    cfgIn,         \* the cog, its config.json and the environment
    cfgOut,        \* the outcome of _load_config: self.config, or the exception
    \* the cogs' _load_db_module
    ext,           \* the state of the module the configuration names
    bound,         \* the outcome of _load_db_module: self.db, or the exception
    \* initialize_database and the cogs' initialize_tables
    schema,        \* per table name, the number of schema objects of that name
    booted,        \* the initializers called so far, with their outcome
    \* the slash commands
    stats_db,      \* whether the Stats cog has its database module (self.db)
    inv            \* the invocation in progress: command, arguments, position, reply

store == <<db, lock, pc, call, txn, ret, err, snap, post, seen, serial, tally, init0, calls>>
loader == <<cogs_dir, broken, lpc, todo, attempted, status, loaded_count>>
resolver == <<cfgIn, cfgOut>>
\* What the calls on the store leave alone.
binder == <<ext, bound>>
boot == <<schema, booted>>
commands == <<stats_db, inv>>
\* What the loader and the configuration resolver leave alone.
rest == <<binder, boot, commands>>
registry == <<loader, resolver, rest>>
vars == <<store, loader, resolver, rest>>

\* Stored state before the first call: account 1 is unseen (-1) or has a row
\* with an amount in 0..InitMax, the other accounts are unseen.
InitRows == {rows \in [Accounts -> -1..InitMax] : \A u \in Accounts \ {1} : rows[u] = -1}

InitDb(rows) ==
    LET keys == {<<u, NameT>> : u \in {a \in Accounts : rows[a] >= 0}}
    IN [users |-> {u \in Accounts : rows[u] >= 0},
        bal |-> [k \in keys |-> rows[k[1]]],
        usage |-> <<>>]

Keys == Accounts \X InputNames
Tally0 == [spent |-> [k \in Keys |-> 0], gained |-> [k \in Keys |-> 0],
           adjusted |-> [k \in Keys |-> 0], updates |-> 0,
           tracked |-> [name \in CommandNames |-> 0], resets |-> 0]

\* No call on the store is in progress and the committed database is d.
StoreAt(d) ==
    /\ db = d
    /\ init0 = d
    /\ serial = [db |-> d, ok |-> TRUE]
    /\ lock = {}
    /\ pc = [p \in Procs |-> "idle"]
    /\ call = [p \in Procs |-> NoCall]
    /\ txn = [p \in Procs |-> EmptyDb]
    /\ ret = [p \in Procs |-> <<>>]
    /\ err = [p \in Procs |-> "none"]
    /\ snap = [p \in Procs |-> EmptyDb]
    /\ post = [p \in Procs |-> EmptyDb]
    /\ seen = [p \in Procs |-> {}]
    /\ tally = Tally0
    /\ calls = 0

\* load_all_cogs is not running.
LoaderIdle ==
    /\ cogs_dir = [state |-> "listed", entries |-> {}]
    /\ broken = {}
    /\ lpc = "returned"
    /\ todo = <<>>
    /\ attempted = <<>>
    /\ status = <<>>
    /\ loaded_count = 0

\* Python's None, among values that are strings.
None == "<None>"

\* No cog is being constructed.
NoConfigIn == [cog |-> "", file |-> [kind |-> "absent", map |-> <<>>], env |-> None]
NoConfigOut == [outcome |-> "none", config |-> <<>>]

ResolverIdle ==
    /\ cfgIn = NoConfigIn
    /\ cfgOut = NoConfigOut

\* No database module is being bound.
NoBound == [outcome |-> "none", db |-> None]
BinderIdle ==
    /\ ext = "ok"
    /\ bound = NoBound

\* The three tables exist, once each, and no initializer is running.
TableNames == {"users", "balances", "command_usage"}
BootIdle ==
    /\ schema = [t \in TableNames |-> 1]
    /\ booted = <<>>

\* No command is being served.
NoInvocation == [name |-> "", at |-> "idle", user |-> 0, recipient |-> 0,
                 amount |-> 0, currency |-> <<>>, reply |-> "", ops |-> <<>>,
                 db0 |-> EmptyDb, faulty |-> FALSE]
CommandsIdle ==
    /\ stats_db = TRUE
    /\ inv = NoInvocation

RestIdle == BinderIdle /\ BootIdle /\ CommandsIdle

Init ==
    /\ \E rows \in InitRows : StoreAt(InitDb(rows))
    /\ LoaderIdle
    /\ ResolverIdle
    /\ RestIdle

\* ------------------------------------------------- connection primitives
\* The first write statement of a call: implicit BEGIN, write lock taken,
\* the statement applied to the call's private view of the database.
\* Variant: statements never wait for the write lock (each connection
\* reads, then writes, with nothing held in between).
WriteLockFree_Always == TRUE
\* No other connection is inside a write transaction.
WriteLockFree == lock = {}

FirstStatement(p, newTxn, nextPc) ==
    /\ WriteLockFree
    /\ lock' = lock \cup {p}
    /\ txn' = [txn EXCEPT ![p] = newTxn]
    /\ snap' = [snap EXCEPT ![p] = db]
    /\ pc' = [pc EXCEPT ![p] = nextPc]
    /\ UNCHANGED <<db, call, ret, err, post, seen, serial, tally, init0, registry, calls>>

\* A later statement of the transaction.
Statement(p, newTxn, nextPc) ==
    /\ p \in lock
    /\ txn' = [txn EXCEPT ![p] = newTxn]
    /\ pc' = [pc EXCEPT ![p] = nextPc]
    /\ UNCHANGED <<db, lock, call, ret, err, snap, post, seen, serial, tally, init0, registry, calls>>

\* Variant: the statements already executed stay in the file.
RolledBack_Partial(p) == txn[p]
\* What the database file holds after rollback(), or after close() with a
\* transaction still open.
RolledBack(p) == db

\* Variant: neither rollback() nor close() is called; the transaction stays
\* open and keeps the write lock.
EndTransaction_LeftOpen(p) ==
    /\ db' = db
    /\ post' = [post EXCEPT ![p] = db]
    /\ snap' = [snap EXCEPT ![p] = IF p \in lock THEN @ ELSE db]
    /\ UNCHANGED <<lock, txn>>

\* The transaction, if one is open, ends without a commit: conn.rollback()
\* in the except clause, or conn.close() alone.  A call that never began a
\* transaction has the database of this moment as its before and after.
EndTransaction(p) ==
    /\ db' = IF p \in lock THEN RolledBack(p) ELSE db
    /\ post' = [post EXCEPT ![p] = db']
    /\ snap' = [snap EXCEPT ![p] = IF p \in lock THEN @ ELSE db]
    /\ lock' = lock \ {p}
    /\ txn' = [txn EXCEPT ![p] = EmptyDb]

\* Variant: the handler is written for one class of error only (except
\* sqlite3.OperationalError), which the lock timeout raises.
Caught_OnlyOperational(what) == what = "locked"
\* except Exception: every exception a statement or the commit raises is an
\* sqlite3.Error, which the handler catches.
Caught(what) == TRUE

\* except Exception: logger.error(...); conn.rollback(); then the finally
\* clause closes the connection and the call returns balance / success.
\* An exception the handler does not catch leaves the call through the
\* finally clause alone and reaches the caller.
Except(p, what) ==
    /\ EndTransaction(p)
    /\ err' = [err EXCEPT ![p] = what]
    /\ pc' = [pc EXCEPT ![p] = IF Caught(what) THEN "done" ELSE "raised"]
    /\ UNCHANGED <<call, ret, seen, serial, tally, init0, registry, calls>>

\* The places of a call: at its first write statement, at a later
\* statement of its transaction, at a SELECT outside any transaction.
FirstPcs == {"gb_ensure", "ub_ensure", "tc_ensure_payer", "tr_upsert", "rs_delete"}
LaterPcs == {"gb_select", "gb_insert", "ub_insert", "ub_update",
             "tc_ensure_recipient", "tc_select", "tc_debit", "tc_insert",
             "tc_credit", "commit"}
ReadPcs == {"ga_select"}

\* sqlite3.connect(DATABASE_PATH, timeout=10): the connection, or None.
Connect == BOOLEAN

\* Variant: the connection is used without the "if not conn" test, and
\* None.cursor() raises outside the try block.
Begin_Unchecked(p, c, conn, firstPc, ret0) ==
    /\ pc[p] = "idle"
    /\ calls < MaxCalls
    /\ calls' = calls + 1
    /\ call' = [call EXCEPT ![p] = c]
    /\ ret' = [ret EXCEPT ![p] = ret0]
    /\ pc' = [pc EXCEPT ![p] = IF conn THEN firstPc ELSE "raised"]
    /\ err' = [err EXCEPT ![p] = IF conn THEN @ ELSE "connect"]
    /\ IF conn /\ firstPc # "done"
          THEN UNCHANGED <<snap, post>>
          ELSE /\ snap' = [snap EXCEPT ![p] = db]
               /\ post' = [post EXCEPT ![p] = db]
    /\ seen' = [seen EXCEPT ![p] = {Amount0(db, c.a, Lower(c.cur))}]
    /\ UNCHANGED <<db, lock, txn, serial, tally, init0, registry>>

\* call[p] set, the connection opened or not.  A call that returns without
\* a transaction has the database of this moment as its before and after.
Begin(p, c, conn, firstPc, ret0) ==
    /\ pc[p] = "idle"
    /\ calls < MaxCalls
    /\ calls' = calls + 1
    /\ call' = [call EXCEPT ![p] = c]
    /\ ret' = [ret EXCEPT ![p] = ret0]
    /\ IF conn
          THEN /\ pc' = [pc EXCEPT ![p] = firstPc]
               /\ err' = err
          ELSE /\ pc' = [pc EXCEPT ![p] = "done"]
               /\ err' = [err EXCEPT ![p] = "connect"]
    /\ IF conn /\ firstPc # "done"
          THEN UNCHANGED <<snap, post>>
          ELSE /\ snap' = [snap EXCEPT ![p] = db]
               /\ post' = [post EXCEPT ![p] = db]
    /\ seen' = [seen EXCEPT ![p] = {Amount0(db, c.a, Lower(c.cur))}]
    /\ UNCHANGED <<db, lock, txn, serial, tally, init0, registry>>

\* currency.lower() of p's call.
CurrencyLower(p) == Lower(call[p].cur)

\* ------------------------------------------------------------ get_balance
BeginGetBalance(p) ==
    \E u \in Accounts, c \in InputNames, conn \in Connect :
        Begin(p, [op |-> "get_balance", a |-> u, b |-> u, n |-> 0, cur |-> c,
                  cmd |-> ""],
              conn, "gb_ensure", 0)

GbEnsureUser(p) ==
    /\ pc[p] = "gb_ensure"
    /\ FirstStatement(p, EnsureUserExists(db, call[p].a), "gb_select")

GbSelect(p) ==
    /\ pc[p] = "gb_select"
    /\ p \in lock
    /\ LET result == SelectAmount(txn[p], call[p].a, CurrencyLower(p))
       IN IF result # NoRow
             THEN /\ ret' = [ret EXCEPT ![p] = result[1]]
                  /\ pc' = [pc EXCEPT ![p] = "commit"]
             ELSE /\ ret' = ret
                  /\ pc' = [pc EXCEPT ![p] = "gb_insert"]
    /\ UNCHANGED <<db, lock, call, txn, err, snap, post, seen, serial, tally, init0, registry, calls>>

\* Variant: the missing row is not created.
GbInsert_Skipped(p) ==
    /\ pc[p] = "gb_insert"
    /\ p \in lock
    /\ pc' = [pc EXCEPT ![p] = "commit"]
    /\ UNCHANGED <<db, lock, call, txn, ret, err, snap, post, seen, serial, tally, init0, registry, calls>>

\* A plain INSERT: it raises IntegrityError when the key is already there.
GbInsert(p) ==
    /\ pc[p] = "gb_insert"
    /\ p \in lock
    /\ IF HasRow(txn[p], call[p].a, CurrencyLower(p))
          THEN Except(p, "gb_insert")
          ELSE Statement(p, InsertZeroRow(txn[p], call[p].a, CurrencyLower(p)),
                         "commit")

\* --------------------------------------------------------- update_balance
BeginUpdateBalance(p) ==
    \E u \in Accounts, c \in InputNames, x \in Deltas,
       conn \in Connect :
        Begin(p, [op |-> "update_balance", a |-> u, b |-> u, n |-> x, cur |-> c,
                  cmd |-> ""],
              conn, "ub_ensure", <<>>)

UbEnsureUser(p) ==
    /\ pc[p] = "ub_ensure"
    /\ FirstStatement(p, EnsureUserExists(db, call[p].a), "ub_insert")

UbInsert(p) ==
    /\ pc[p] = "ub_insert"
    /\ Statement(p, InsertZeroRow(txn[p], call[p].a, CurrencyLower(p)), "ub_update")

\* Variant: the amount is floored at zero (MAX(0, amount + ?)).
UbUpdate_Floored(p) ==
    /\ pc[p] = "ub_update"
    /\ LET d == AddAmount(txn[p], call[p].a, CurrencyLower(p), call[p].n)
           k == <<call[p].a, CurrencyLower(p)>>
       IN Statement(p, IF d.bal[k] < 0 THEN [d EXCEPT !.bal[k] = 0] ELSE d, "commit")

UbUpdate(p) ==
    /\ pc[p] = "ub_update"
    /\ Statement(p, AddAmount(txn[p], call[p].a, CurrencyLower(p), call[p].n), "commit")

\* ------------------------------------------------------ transfer_currency
\* amount <= 0 returns False before a connection is opened.
BeginTransfer(p) ==
    \E a \in Accounts, b \in Accounts, c \in InputNames, n \in TransferAmounts,
       conn \in Connect :
        /\ n <= 0 => conn
        /\ Begin(p, [op |-> "transfer_currency", a |-> a, b |-> b, n |-> n, cur |-> c,
                  cmd |-> ""],
                 conn, IF n <= 0 THEN "done" ELSE "tc_ensure_payer", FALSE)

TcEnsurePayer(p) ==
    /\ pc[p] = "tc_ensure_payer"
    /\ FirstStatement(p, EnsureUserExists(db, call[p].a), "tc_ensure_recipient")

TcEnsureRecipient(p) ==
    /\ pc[p] = "tc_ensure_recipient"
    /\ Statement(p, EnsureUserExists(txn[p], call[p].b), "tc_select")

\* The SELECT, current_balance, and the insufficient-funds return, which
\* leaves the try block through the finally clause: conn.close() with
\* neither commit nor rollback, then return False.
TcSelect(p) ==
    /\ pc[p] = "tc_select"
    /\ p \in lock
    /\ LET result == SelectAmount(txn[p], call[p].a, CurrencyLower(p))
           current_balance == IF result # NoRow THEN result[1] ELSE 0
       IN IF Insufficient(current_balance, call[p].n)
             THEN /\ EndTransaction(p)
                  /\ pc' = [pc EXCEPT ![p] = "done"]
                  /\ UNCHANGED <<call, ret, err, seen, serial, tally, init0, registry, calls>>
             ELSE /\ pc' = [pc EXCEPT ![p] = "tc_debit"]
                  /\ UNCHANGED <<db, lock, call, txn, ret, err, snap, post, seen,
                                 serial, tally, init0, registry, calls>>

\* Variant: the debit is written straight to the database file (autocommit).
TcDebit_WrittenThrough(p) ==
    /\ pc[p] = "tc_debit"
    /\ p \in lock
    /\ db' = Debit(txn[p], call[p].a, CurrencyLower(p), call[p].n)
    /\ txn' = [txn EXCEPT ![p] = db']
    /\ pc' = [pc EXCEPT ![p] = "tc_insert"]
    /\ UNCHANGED <<lock, call, ret, err, snap, post, seen, serial, tally, init0, registry, calls>>

TcDebit(p) ==
    /\ pc[p] = "tc_debit"
    /\ Statement(p, Debit(txn[p], call[p].a, CurrencyLower(p), call[p].n), "tc_insert")

TcInsert(p) ==
    /\ pc[p] = "tc_insert"
    /\ Statement(p, InsertZeroRow(txn[p], call[p].b, CurrencyLower(p)), "tc_credit")

TcCredit(p) ==
    /\ pc[p] = "tc_credit"
    /\ Statement(p, Credit(txn[p], call[p].b, CurrencyLower(p), call[p].n), "commit")

\* ---------------------------------------------------- track_command_usage
BeginTrack(p) ==
    \E name \in CommandNames, conn \in Connect :
        Begin(p, [op |-> "track_command_usage", a |-> 0, b |-> 0, n |-> 0,
                  cur |-> <<>>, cmd |-> name],
              conn, "tr_upsert", <<>>)

TrUpsert(p) ==
    /\ pc[p] = "tr_upsert"
    /\ FirstStatement(p, UpsertAddOne(db, call[p].cmd), "commit")

\* -------------------------------------------------- get_all_command_usage
BeginGetAll(p) ==
    \E conn \in Connect :
        Begin(p, [op |-> "get_all_command_usage", a |-> 0, b |-> 0, n |-> 0,
                  cur |-> <<>>, cmd |-> ""],
              conn, "ga_select", <<>>)

\* The SELECT reads the committed database; the dict is returned from
\* inside the try block and the finally clause closes the connection.
GaSelect(p) ==
    /\ pc[p] = "ga_select"
    /\ ret' = [ret EXCEPT ![p] = SelectAll(db)]
    /\ EndTransaction(p)
    /\ pc' = [pc EXCEPT ![p] = "done"]
    /\ UNCHANGED <<call, err, seen, serial, tally, init0, registry, calls>>

\* ------------------------------------------------ reset_all_command_usage
BeginReset(p) ==
    \E conn \in Connect :
        Begin(p, [op |-> "reset_all_command_usage", a |-> 0, b |-> 0, n |-> 0,
                  cur |-> <<>>, cmd |-> ""],
              conn, "rs_delete", <<>>)

RsDelete(p) ==
    /\ pc[p] = "rs_delete"
    /\ FirstStatement(p, DeleteAll(db), "commit")

\* ------------------------------------------------ a call run on its own
\* What each operation does to database d, and returns, when nothing runs
\* between its statements.
GetBalanceAlone(d, c) ==
    LET cl == Lower(c.cur)
        d1 == EnsureUserExists(d, c.a)
        result == SelectAmount(d1, c.a, cl)
    IN IF result # NoRow
          THEN [db |-> d1, ret |-> result[1]]
          ELSE [db |-> InsertZeroRow(d1, c.a, cl), ret |-> 0]

UpdateBalanceAlone(d, c) ==
    LET cl == Lower(c.cur)
        d1 == EnsureUserExists(d, c.a)
        d2 == InsertZeroRow(d1, c.a, cl)
    IN [db |-> AddAmount(d2, c.a, cl, c.n), ret |-> <<>>]

TransferAlone(d, c) ==
    LET cl == Lower(c.cur)
        d1 == EnsureUserExists(EnsureUserExists(d, c.a), c.b)
        result == SelectAmount(d1, c.a, cl)
        current_balance == IF result # NoRow THEN result[1] ELSE 0
        d2 == Debit(d1, c.a, cl, c.n)
        d3 == InsertZeroRow(d2, c.b, cl)
    IN IF c.n <= 0 \/ Insufficient(current_balance, c.n)
          THEN [db |-> d, ret |-> FALSE]
          ELSE [db |-> Credit(d3, c.b, cl, c.n), ret |-> TRUE]

Alone(d, c) ==
    CASE c.op = "get_balance" -> GetBalanceAlone(d, c)
      [] c.op = "update_balance" -> UpdateBalanceAlone(d, c)
      [] c.op = "transfer_currency" -> TransferAlone(d, c)
      [] c.op = "track_command_usage" -> [db |-> UpsertAddOne(d, c.cmd), ret |-> <<>>]
      [] c.op = "reset_all_command_usage" -> [db |-> DeleteAll(d), ret |-> <<>>]

\* Whether two return values of operation op are the same value.
SameRet(op, r1, r2) ==
    IF op = "transfer_currency" THEN r1 <=> r2 ELSE r1 = r2

\* The amounts a committed call moved, added to the tally.
Tallied(t, c) ==
    LET ka == <<c.a, Lower(c.cur)>>
        kb == <<c.b, Lower(c.cur)>>
    IN CASE c.op = "transfer_currency" ->
              [t EXCEPT !.spent[ka] = @ + c.n, !.gained[kb] = @ + c.n]
         [] c.op = "update_balance" ->
              [t EXCEPT !.adjusted[ka] = @ + c.n, !.updates = @ + 1]
         [] c.op = "track_command_usage" -> [t EXCEPT !.tracked[c.cmd] = @ + 1]
         [] c.op = "reset_all_command_usage" -> [t EXCEPT !.resets = @ + 1]
         [] OTHER -> t

\* ------------------------------------------- commit, rollback, close
\* What commit() writes to the database file.
Committed(p) == txn[p]

\* conn.commit() (in transfer_currency, success = True follows), then the
\* finally clause closes the connection and the call returns.
Commit(p) ==
    /\ pc[p] = "commit"
    /\ p \in lock
    /\ db' = Committed(p)
    /\ post' = [post EXCEPT ![p] = Committed(p)]
    /\ lock' = lock \ {p}
    /\ txn' = [txn EXCEPT ![p] = EmptyDb]
    /\ ret' = [ret EXCEPT ![p] =
                  IF call[p].op = "transfer_currency" THEN TRUE ELSE @]
    /\ serial' = [db |-> Alone(serial.db, call[p]).db,
                  ok |-> /\ serial.ok
                         /\ SameRet(call[p].op, Alone(serial.db, call[p]).ret, ret'[p])]
    /\ tally' = Tallied(tally, call[p])
    /\ seen' = [q \in Procs |->
                  IF pc[q] = "idle" THEN seen[q]
                  ELSE seen[q] \cup {Amount0(db', call[q].a, Lower(call[q].cur))}]
    /\ pc' = [pc EXCEPT ![p] = "done"]
    /\ UNCHANGED <<call, err, snap, init0, registry, calls>>

\* A statement or the commit raises (disk I/O error, database corrupt, ...).
StorageError(p) ==
    /\ pc[p] \in FirstPcs \cup LaterPcs \cup ReadPcs
    /\ pc[p] \in LaterPcs => p \in lock
    /\ Except(p, pc[p])

\* The first statement waits for the write lock another connection holds;
\* after timeout=10 seconds it raises OperationalError: database is locked.
LockTimeout(p) ==
    /\ pc[p] \in FirstPcs
    /\ ~WriteLockFree
    /\ Except(p, "locked")

\* The caller has the result; the process is free for the next call.
Return(p) ==
    /\ pc[p] \in {"done", "raised"}
    /\ pc' = [pc EXCEPT ![p] = "idle"]
    /\ call' = [call EXCEPT ![p] = NoCall]
    /\ ret' = [ret EXCEPT ![p] = <<>>]
    /\ err' = [err EXCEPT ![p] = "none"]
    /\ snap' = [snap EXCEPT ![p] = EmptyDb]
    /\ post' = [post EXCEPT ![p] = EmptyDb]
    /\ seen' = [seen EXCEPT ![p] = {}]
    /\ UNCHANGED <<db, lock, txn, serial, tally, init0, registry, calls>>

Next ==
    \E p \in Procs :
        \/ BeginGetBalance(p)
        \/ GbEnsureUser(p)
        \/ GbSelect(p)
        \/ GbInsert(p)
        \/ BeginUpdateBalance(p)
        \/ UbEnsureUser(p)
        \/ UbInsert(p)
        \/ UbUpdate(p)
        \/ BeginTransfer(p)
        \/ TcEnsurePayer(p)
        \/ TcEnsureRecipient(p)
        \/ TcSelect(p)
        \/ TcDebit(p)
        \/ TcInsert(p)
        \/ TcCredit(p)
        \/ Commit(p)
        \/ StorageError(p)
        \/ LockTimeout(p)
        \/ Return(p)

Spec == Init /\ [][Next]_vars

\* ------------------------------------------ the ledger and the counters
\* The usage counters stored before the first call: none, or a row for
\* "pay" with a count in 1..InitMax.
InitUsage == {<<>>} \cup {("pay" :> k) : k \in 1..InitMax}

\* Account 1 holds InitMax of "tk"; the counters are any of InitUsage.
StoreInit ==
    /\ \E rows \in InitRows, u \in InitUsage :
          /\ rows[1] = InitMax
          /\ StoreAt([InitDb(rows) EXCEPT !.usage = u])
    /\ LoaderIdle
    /\ ResolverIdle
    /\ RestIdle

StatsNext ==
    \E p \in Procs :
        \/ BeginTrack(p)
        \/ TrUpsert(p)
        \/ BeginGetAll(p)
        \/ GaSelect(p)
        \/ BeginReset(p)
        \/ RsDelete(p)

StoreNext == Next \/ StatsNext

\* The ledger and the usage counters in one database file.
StoreSpec == StoreInit /\ [][StoreNext]_vars

\* ---------------------------------------------------------- load_all_cogs
\* File names are sequences of characters.
CogTemplate == <<"c", "o", "g", "_", "t", "e", "m", "p", "l", "a", "t", "e">>
\* The names an entry of the cogs directory can have: "Z", "__p", "bank",
\* "cog_template", "stats".
EntryNames == {<<"Z">>, <<"_", "_", "p">>, <<"b", "a", "n", "k">>, CogTemplate,
               <<"s", "t", "a", "t", "s">>}

\* ord(ch) of the characters of the names.
Ord(ch) ==
    CASE ch = "Z" -> 90
      [] ch = "_" -> 95
      [] ch = "a" -> 97
      [] ch = "b" -> 98
      [] ch = "c" -> 99
      [] ch = "e" -> 101
      [] ch = "g" -> 103
      [] ch = "k" -> 107
      [] ch = "l" -> 108
      [] ch = "m" -> 109
      [] ch = "n" -> 110
      [] ch = "o" -> 111
      [] ch = "p" -> 112
      [] ch = "s" -> 115
      [] ch = "t" -> 116

\* s < t on Python str: by code point at the first difference, a proper
\* prefix first.
RECURSIVE StrLess(_, _)
StrLess(s, t) ==
    IF t = <<>> THEN FALSE
    ELSE IF s = <<>> THEN TRUE
    ELSE IF Ord(Head(s)) # Ord(Head(t)) THEN Ord(Head(s)) < Ord(Head(t))
    ELSE StrLess(Tail(s), Tail(t))

\* Variant: the listing is taken in the opposite order.
RECURSIVE Sorted_Descending(_)
Sorted_Descending(S) ==
    IF S = {} THEN <<>>
    ELSE LET last == CHOOSE x \in S : \A y \in S \ {x} : StrLess(y, x)
         IN <<last>> \o Sorted_Descending(S \ {last})
\* sorted(...) of a set of distinct names.
RECURSIVE Sorted(_)
Sorted(S) ==
    IF S = {} THEN <<>>
    ELSE LET first == CHOOSE x \in S : \A y \in S \ {x} : StrLess(x, y)
         IN <<first>> \o Sorted(S \ {first})

excluded_cogs == {CogTemplate}

\* item.startswith('__')
StartsWithDunder(item) == Len(item) >= 2 /\ item[1] = "_" /\ item[2] = "_"

\* os.path.isdir(path)
IsDir(item) == cogs_dir.entries[item] = "dir"

\* The cogs directories: missing, unreadable, or listed with any of the
\* names as a file or a directory; any of the directories can hold a module
\* whose load_extension raises.
CogsDirs ==
    {[state |-> st, entries |-> <<>>] : st \in {"missing", "unreadable"}}
    \cup UNION {{[state |-> "listed", entries |-> e] : e \in [N -> {"file", "dir"}]}
                : N \in SUBSET EntryNames}

LoadInit ==
    /\ \E rows \in InitRows : rows[1] = InitMax /\ StoreAt(InitDb(rows))
    /\ ResolverIdle
    /\ RestIdle
    /\ cogs_dir \in CogsDirs
    /\ broken \in SUBSET {n \in DOMAIN cogs_dir.entries : cogs_dir.entries[n] = "dir"}
    /\ lpc = "start"
    /\ todo = <<>>
    /\ attempted = <<>>
    /\ status = <<>>
    /\ loaded_count = 0

\* for item in sorted(os.listdir(cogs_dir)): os.listdir raises
\* FileNotFoundError or PermissionError outside any try block.
ListDir ==
    /\ lpc = "start"
    /\ IF cogs_dir.state = "listed"
          THEN /\ todo' = Sorted(DOMAIN cogs_dir.entries)
               /\ lpc' = "loop"
          ELSE /\ todo' = todo
               /\ lpc' = "raised"
    /\ UNCHANGED <<cogs_dir, broken, attempted, status, loaded_count, store, resolver, rest>>

\* The item at hand in the loop.
Item == Head(todo)

InLoop == lpc = "loop" /\ todo # <<>>

\* The outer if is false: not a directory, or a name starting with "__".
LoopSkip ==
    /\ InLoop
    /\ ~(IsDir(Item) /\ ~StartsWithDunder(Item))
    /\ todo' = Tail(todo)
    /\ UNCHANGED <<cogs_dir, broken, lpc, attempted, status, loaded_count, store, resolver, rest>>

\* if item in excluded_cogs: continue
LoopExcluded ==
    /\ InLoop
    /\ IsDir(Item) /\ ~StartsWithDunder(Item)
    /\ Item \in excluded_cogs
    /\ todo' = Tail(todo)
    /\ UNCHANGED <<cogs_dir, broken, lpc, attempted, status, loaded_count, store, resolver, rest>>

Attempt == IsDir(Item) /\ ~StartsWithDunder(Item) /\ Item \notin excluded_cogs

\* await self.load_extension(cog_path) returns: "Loaded", loaded_count += 1
LoopLoad ==
    /\ InLoop
    /\ Attempt
    /\ Item \notin broken
    /\ attempted' = Append(attempted, Item)
    /\ status' = (Item :> "loaded") @@ status
    /\ loaded_count' = loaded_count + 1
    /\ todo' = Tail(todo)
    /\ UNCHANGED <<cogs_dir, broken, lpc, store, resolver, rest>>

\* Variant: no try/except around load_extension; the exception ends the loop.
LoopFail_Propagates ==
    /\ InLoop
    /\ Attempt
    /\ Item \in broken
    /\ attempted' = Append(attempted, Item)
    /\ lpc' = "raised"
    /\ UNCHANGED <<cogs_dir, broken, todo, status, loaded_count, store, resolver, rest>>

\* load_extension raises: except Exception logs "Failed" and the loop goes on.
LoopFail ==
    /\ InLoop
    /\ Attempt
    /\ Item \in broken
    /\ attempted' = Append(attempted, Item)
    /\ status' = (Item :> "failed") @@ status
    /\ todo' = Tail(todo)
    /\ UNCHANGED <<cogs_dir, broken, lpc, loaded_count, store, resolver, rest>>

\* The loop is over: the summary line with loaded_count, and the return.
LoopEnd ==
    /\ lpc = "loop"
    /\ todo = <<>>
    /\ lpc' = "returned"
    /\ UNCHANGED <<cogs_dir, broken, todo, attempted, status, loaded_count, store, resolver, rest>>

LoadNext ==
    \/ ListDir
    \/ LoopSkip
    \/ LoopExcluded
    \/ LoopLoad
    \/ LoopFail
    \/ LoopEnd

LoadSpec == LoadInit /\ [][LoadNext]_vars

\* ----------------------------------------------------------- _load_config
\* The cogs that are loaded: fixtter derives from BaseCog, the others carry
\* their own _load_config.
StandaloneCogs == {"central_bank", "stats", "information"}
Cogs == {"fixtter"} \cup StandaloneCogs

\* config.json: absent (FileNotFoundError), not JSON (JSONDecodeError), JSON
\* that is no object (a list, a string, a number), or an object with any of
\* these keys.
FileKeys == {"color", "footer_text", "footer_icon_url", "prefix", "database_module"}
FileValues(k) ==
    CASE k = "color" -> {"0x000000"}
      [] k = "footer_text" -> {"Mine"}
      [] k = "footer_icon_url" -> {"", "file_url"}
      [] k = "prefix" -> {"!"}
      [] k = "database_module" -> {"cog_db_functions"}
FileMaps ==
    UNION {{m \in [K -> {"0x000000", "Mine", "", "file_url", "!", "cog_db_functions"}] :
               \A k \in K : m[k] \in FileValues(k)} : K \in SUBSET FileKeys}
ConfigFiles ==
    {[kind |-> k, map |-> <<>>] : k \in {"absent", "invalid", "other"}}
    \cup {[kind |-> "object", map |-> m] : m \in FileMaps}

\* ICON_URL_FOOTER: unset, empty or set.
EnvValues == {None, "", "env_url"}

\* os.getenv("ICON_URL_FOOTER", default) in environment env.
GetEnv(env, default) == IF env = None THEN default ELSE env

\* dict.get(k, default)
DictGet(m, k, default) == IF k \in DOMAIN m THEN m[k] ELSE default

\* BaseCog.default_config with LinkFixer's overrides.
default_config(env) ==
    [author_name |-> "Link Fixer",
     author_icon_url |-> "",
     footer_text |-> "Task Manager Bot",
     footer_icon_url |-> GetEnv(env, ""),
     color |-> "0x1DA1F2",
     log_level |-> "INFO",
     database_module |-> None]

\* The dict the standalone cogs assign in their except clause.
FallbackConfig(cog, env) ==
    CASE cog = "central_bank" ->
           [author_name |-> "Central Bank", author_icon_url |-> "",
            footer_text |-> "Task Manager Bot",
            footer_icon_url |-> GetEnv(env, ""), color |-> "0x3498DB"]
      [] cog = "stats" ->
           [author_name |-> "Bot Statistics", author_icon_url |-> "",
            footer_text |-> "Task Manager Bot",
            footer_icon_url |-> GetEnv(env, ""), color |-> "0xE67E22",
            database_module |-> None]
      [] cog = "information" ->
           [author_name |-> "Bot Information", author_icon_url |-> "",
            footer_text |-> "Task Manager Bot",
            footer_icon_url |-> GetEnv(env, ""), color |-> "0x95A5A6"]

\* The defaults of a cog.
Defaults(cog, env) ==
    IF cog \in StandaloneCogs THEN FallbackConfig(cog, env) ELSE default_config(env)

\* Variant: the defaults are written over the file (config.update(default)).
Merge_DefaultsWin(config, default, keys) == default @@ config
\* for key, value in default.items(): if key not in config: config[key] = value
RECURSIVE Merge(_, _, _)
Merge(config, default, keys) ==
    IF keys = {} THEN config
    ELSE LET key == CHOOSE k \in keys : TRUE
             next == IF key \notin DOMAIN config
                        THEN (key :> default[key]) @@ config
                        ELSE config
         IN Merge(next, default, keys \ {key})

\* config['footer_icon_url'] = value
SetFooter(config, value) ==
    [k \in DOMAIN config \cup {"footer_icon_url"} |->
        IF k = "footer_icon_url" THEN value ELSE config[k]]

\* The module cogs.<cog_name>.<database_module> names: importable with an
\* initialize_tables that returns; absent (ModuleNotFoundError, an
\* ImportError); raising another exception while it is executed
\* (SyntaxError, NameError, ...); importable without initialize_tables;
\* importable with an initialize_tables that raises.
ExtStates == {"ok", "not_found", "load_error", "no_initializer", "initializer_raises"}

ConfigInit ==
    /\ \E rows \in InitRows : rows[1] = InitMax /\ StoreAt(InitDb(rows))
    /\ LoaderIdle
    /\ BootIdle
    /\ CommandsIdle
    /\ ext \in ExtStates
    /\ bound = NoBound
    /\ cfgIn \in [cog : Cogs, file : ConfigFiles, env : EnvValues]
    /\ cfgOut = NoConfigOut

\* The outcome of _load_config: self.config assigned, or an exception that
\* leaves the constructor.
Resolved(config) == [outcome |-> "config", config |-> config]
Raises == [outcome |-> "raised", config |-> <<>>]

\* BaseCog._load_config.  json.load of a value that is no dict: the merge
\* loop raises TypeError, which the except clause does not name.
BaseCogLoadConfig ==
    /\ cfgOut.outcome = "none"
    /\ cfgIn.cog \notin StandaloneCogs
    /\ cfgOut' =
          CASE cfgIn.file.kind \in {"absent", "invalid"} ->
                 Resolved(default_config(cfgIn.env))
            [] cfgIn.file.kind = "other" -> Raises
            [] cfgIn.file.kind = "object" ->
                 LET default == default_config(cfgIn.env)
                     config == Merge(cfgIn.file.map, default, DOMAIN default)
                 IN Resolved(SetFooter(config,
                        DictGet(config, "footer_icon_url", GetEnv(cfgIn.env, ""))))
    /\ UNCHANGED <<cfgIn, store, loader, rest>>

\* self.config.get('footer_icon_url', os.getenv("ICON_URL_FOOTER"))
StandaloneFooter(config, env) ==
    DictGet(config, "footer_icon_url", GetEnv(env, None))

\* CentralBank._load_config, Stats._load_config, Information._load_config:
\* the same statements with each cog's own dict in the except clause.
\* json.load of a value that is no dict: self.config.get raises
\* AttributeError (TypeError on the assignment), which is not caught.
StandaloneLoadConfig ==
    /\ cfgOut.outcome = "none"
    /\ cfgIn.cog \in StandaloneCogs
    /\ cfgOut' =
          CASE cfgIn.file.kind \in {"absent", "invalid"} ->
                 Resolved(FallbackConfig(cfgIn.cog, cfgIn.env))
            [] cfgIn.file.kind = "other" -> Raises
            [] cfgIn.file.kind = "object" ->
                 Resolved(SetFooter(cfgIn.file.map,
                                    StandaloneFooter(cfgIn.file.map, cfgIn.env)))
    /\ UNCHANGED <<cfgIn, store, loader, rest>>

\* The outcome of _load_db_module: the value assigned to self.db, or an
\* exception that leaves the constructor.
Bound(db_module) == [outcome |-> "returned", db |-> db_module]
BindRaises == [outcome |-> "raised", db |-> None]
DbModule == "cog_db_functions"

\* except ImportError
ImportCaught(e) == e = "not_found"

\* BaseCog._load_db_module, after _load_config returned.
BaseCogLoadDbModule ==
    /\ cfgOut.outcome = "config"
    /\ bound = NoBound
    /\ cfgIn.cog \notin StandaloneCogs
    /\ LET db_module_name == DictGet(cfgOut.config, "database_module", None)
       IN bound' =
             IF db_module_name = None THEN Bound(None)
             ELSE CASE ext \in {"not_found", "load_error"} ->
                         IF ImportCaught(ext) THEN Bound(None) ELSE BindRaises
                    [] ext = "no_initializer" -> Bound(DbModule)
                    [] ext = "initializer_raises" ->
                         IF ImportCaught(ext) THEN Bound(None) ELSE BindRaises
                    [] ext = "ok" -> Bound(DbModule)
    /\ UNCHANGED <<ext, store, loader, resolver, boot, commands>>

\* Stats._load_db_module: initialize_tables is called without hasattr, so
\* a module without it raises AttributeError inside the try block.
StatsLoadDbModule ==
    /\ cfgOut.outcome = "config"
    /\ bound = NoBound
    /\ cfgIn.cog = "stats"
    /\ LET db_module_name == DictGet(cfgOut.config, "database_module", None)
       IN bound' =
             IF db_module_name = None THEN Bound(None)
             ELSE CASE ext = "ok" -> Bound(DbModule)
                    [] OTHER -> IF ImportCaught(ext) THEN Bound(None) ELSE BindRaises
    /\ UNCHANGED <<ext, store, loader, resolver, boot, commands>>

ConfigNext ==
    \/ BaseCogLoadConfig
    \/ StandaloneLoadConfig
    \/ BaseCogLoadDbModule
    \/ StatsLoadDbModule

ConfigSpec == ConfigInit /\ [][ConfigNext]_vars

\* ------------------------------------------------- schema initialization
\* initialize_database (core), initialize_tables (central_bank) and
\* initialize_tables (stats), each a CREATE TABLE IF NOT EXISTS and a commit
\* on a connection of its own.
MaxBoots == 3

Initializers == {"initialize_database", "cb_initialize_tables", "stats_initialize_tables"}

\* The table an initializer creates.
TableOf(fn) ==
    CASE fn = "initialize_database" -> "users"
      [] fn = "cb_initialize_tables" -> "balances"
      [] fn = "stats_initialize_tables" -> "command_usage"

\* The database with table t emptied.
ClearTable(d, t) ==
    CASE t = "users" -> [d EXCEPT !.users = {}]
      [] t = "balances" -> [d EXCEPT !.bal = <<>>]
      [] t = "command_usage" -> [d EXCEPT !.usage = <<>>]

\* Whether table t of d holds no row.
TableEmpty(d, t) == ClearTable(d, t) = d

\* Variant: DROP TABLE IF EXISTS, then CREATE TABLE.
CreateTableIfNotExists_Recreated(s, d, t) ==
    [schema |-> [s EXCEPT ![t] = 1], db |-> ClearTable(d, t)]
\* CREATE TABLE IF NOT EXISTS t (...): a no-op when t exists.
CreateTableIfNotExists(s, d, t) ==
    [schema |-> [s EXCEPT ![t] = IF @ = 0 THEN 1 ELSE @], db |-> d]

\* A database file in which some tables exist; a table that does not exist
\* holds no row.
SchemaInit ==
    /\ \E rows \in InitRows, u \in InitUsage :
          /\ rows[1] = InitMax
          /\ StoreAt([InitDb(rows) EXCEPT !.usage = u])
    /\ LoaderIdle
    /\ ResolverIdle
    /\ BinderIdle
    /\ CommandsIdle
    /\ schema \in [TableNames -> {0, 1}]
    /\ \A t \in TableNames : schema[t] = 0 => TableEmpty(db, t)
    /\ booted = <<>>

\* One call of an initializer: no connection (return), or the statement or
\* the commit raising (logged by the except clause), or the table created
\* if it was not there, committed.  The finally clause closes.
Initialize(fn) ==
    /\ Len(booted) < MaxBoots
    /\ \E conn \in Connect, fails \in BOOLEAN :
          LET done == CreateTableIfNotExists(schema, db, TableOf(fn))
              outcome == IF ~conn THEN "no_connection"
                         ELSE IF ~fails THEN "ok"
                         ELSE IF Caught("create") THEN "logged" ELSE "raised"
          IN /\ schema' = IF outcome = "ok" THEN done.schema ELSE schema
             /\ db' = IF outcome = "ok" THEN done.db ELSE db
             /\ booted' = Append(booted, [fn |-> fn, outcome |-> outcome,
                                          after |-> schema'])
    /\ UNCHANGED <<lock, pc, call, txn, ret, err, snap, post, seen, serial, tally,
                   init0, calls, loader, resolver, binder, commands>>

InitializeDatabase == Initialize("initialize_database")
CbInitializeTables == Initialize("cb_initialize_tables")
StatsInitializeTables == Initialize("stats_initialize_tables")

SchemaNext ==
    \/ InitializeDatabase
    \/ CbInitializeTables
    \/ StatsInitializeTables

SchemaSpec == SchemaInit /\ [][SchemaNext]_vars

\* ---------------------------------------------------------- slash commands
\* One bot process serves one invocation at a time: the command's callback
\* (the store functions it calls are synchronous), then the listener
\* Stats.on_app_command_completion.  The cogs' configurations are complete,
\* so _create_embed does not fail.
MaxInvocations == 2

SlashCommands == {"balance", "pay", "award", "info", "stats", "reset-stats"}

\* The commands whose callback begins with database.track_command_usage.
SelfTracking == {"balance", "pay", "award", "info"}

\* What a store function meets: nothing, no connection, or a statement or
\* the commit raising (rolled back by its except clause).
StoreOutcomes == {"ok", "connect", "error"}

\* The value a store function returns when it could not do its work.
FailureValue(op) ==
    CASE op = "get_balance" -> 0
      [] op = "transfer_currency" -> FALSE
      [] OTHER -> <<>>

\* A store function called by the bot, alone on the store.
StoreCall(d, c, outcome) ==
    IF outcome = "ok" THEN Alone(d, c) ELSE [db |-> d, ret |-> FailureValue(c.op)]

TrackCall(name) ==
    [op |-> "track_command_usage", a |-> 0, b |-> 0, n |-> 0, cur |-> <<>>, cmd |-> name]

CommandInit ==
    /\ \E rows \in InitRows, u \in InitUsage :
          /\ rows[1] = InitMax
          /\ StoreAt([InitDb(rows) EXCEPT !.usage = u])
    /\ LoaderIdle
    /\ ResolverIdle
    /\ BinderIdle
    /\ BootIdle
    /\ stats_db \in BOOLEAN
    /\ inv = NoInvocation

\* What a step of an invocation leaves alone.
Served == <<lock, pc, call, txn, ret, err, snap, post, seen, serial, tally, init0,
            loader, resolver, binder, boot, stats_db>>

\* A user invokes a slash command.  amount of pay is Range[int, 1].
Invoke ==
    /\ inv.at = "idle"
    /\ calls < MaxInvocations
    /\ calls' = calls + 1
    /\ \E name \in SlashCommands, u \in Accounts, r \in Accounts,
          n \in Deltas \cup 1..MaxAmount, c \in InputNames :
          /\ name = "pay" => n >= 1
          /\ name \notin {"pay", "award"} => (r = u /\ n = MaxAmount)
          /\ name \notin {"balance", "pay", "award"} => c = NameT
          /\ inv' = [name |-> name,
                     at |-> IF name \in SelfTracking THEN "track" ELSE "body",
                     user |-> u, recipient |-> r, amount |-> n, currency |-> c,
                     reply |-> "", ops |-> <<>>, db0 |-> db, faulty |-> FALSE]
    /\ UNCHANGED <<db, Served>>

\* The store function c is called and the body goes on at nextAt with reply.
Called(c, outcome, reply, nextAt) ==
    /\ db' = StoreCall(db, c, outcome).db
    /\ inv' = [inv EXCEPT !.ops = Append(@, c.op),
                          !.faulty = @ \/ outcome # "ok",
                          !.reply = reply,
                          !.at = nextAt]
    /\ UNCHANGED <<calls, Served>>

\* The body replies without calling the store.
Replied(reply, nextAt) ==
    /\ inv' = [inv EXCEPT !.reply = reply, !.at = nextAt]
    /\ UNCHANGED <<db, calls, Served>>

\* database.track_command_usage('<name>'), the first statement of balance,
\* pay, award and info.
OwnTrack ==
    /\ inv.at = "track"
    /\ \E outcome \in StoreOutcomes :
          Called(TrackCall(inv.name), outcome, "", "body")

Balance ==
    /\ inv.at = "body" /\ inv.name = "balance"
    /\ \E outcome \in StoreOutcomes :
          Called([op |-> "get_balance", a |-> inv.user, b |-> inv.user, n |-> 0,
                  cur |-> inv.currency, cmd |-> ""],
                 outcome, "Balance", "completion")

Pay ==
    /\ inv.at = "body" /\ inv.name = "pay"
    /\ IF inv.user = inv.recipient
          THEN Replied("Payment Error", "completion")
          ELSE \E outcome \in StoreOutcomes :
                  LET c == [op |-> "transfer_currency", a |-> inv.user,
                            b |-> inv.recipient, n |-> inv.amount,
                            cur |-> inv.currency, cmd |-> ""]
                      success == StoreCall(db, c, outcome).ret
                  IN Called(c, outcome,
                            IF success THEN "Payment Successful" ELSE "Payment Failed",
                            "completion")

Award ==
    /\ inv.at = "body" /\ inv.name = "award"
    /\ \E outcome \in StoreOutcomes :
          Called([op |-> "update_balance", a |-> inv.recipient, b |-> inv.recipient,
                  n |-> inv.amount, cur |-> inv.currency, cmd |-> ""],
                 outcome, "Currency Awarded", "completion")

Info ==
    /\ inv.at = "body" /\ inv.name = "info"
    /\ Replied("Bot Information", "completion")

\* stats: get_total_users and get_all_command_usage read only; each
\* returns its empty value when it fails, so the reply is the same.
StatsCommand ==
    /\ inv.at = "body" /\ inv.name = "stats"
    /\ IF ~stats_db
          THEN Replied("Command Error", "completion")
          ELSE \E outcome \in StoreOutcomes :
                  /\ inv' = [inv EXCEPT
                                !.ops = @ \o <<"get_total_users", "get_all_command_usage">>,
                                !.faulty = @ \/ outcome # "ok",
                                !.reply = "Bot Usage Statistics",
                                !.at = "completion"]
                  /\ UNCHANGED <<db, calls, Served>>

ResetStats ==
    /\ inv.at = "body" /\ inv.name = "reset-stats"
    /\ IF ~stats_db
          THEN Replied("Command Error", "completion")
          ELSE \E outcome \in StoreOutcomes :
                  Called([op |-> "reset_all_command_usage", a |-> 0, b |-> 0, n |-> 0,
                          cur |-> <<>>, cmd |-> ""],
                         outcome, "Statistics Reset", "completion")

\* Stats.on_app_command_completion, dispatched after a callback that
\* returned without raising.
OnAppCommandCompletion ==
    /\ inv.at = "completion"
    /\ IF stats_db
          THEN \E outcome \in StoreOutcomes :
                  Called(TrackCall(inv.name), outcome, inv.reply, "completed")
          ELSE Replied(inv.reply, "completed")

\* The invocation is over; the bot waits for the next one.
Finish ==
    /\ inv.at = "completed"
    /\ inv' = NoInvocation
    /\ UNCHANGED <<db, calls, Served>>

CommandNext ==
    \/ Invoke
    \/ OwnTrack
    \/ Balance
    \/ Pay
    \/ Award
    \/ Info
    \/ StatsCommand
    \/ ResetStats
    \/ OnAppCommandCompletion
    \/ Finish

CommandSpec == CommandInit /\ [][CommandNext]_vars

\* ------------------------------------- transfer_currency of src/database.py
\* The module src/database.py, used by one process alone.  Its
\* transfer_currency reads the payer's balance by calling its get_balance,
\* which opens a connection of its own.
LegacyProcs == {1}

LegacyInit ==
    /\ \E rows \in InitRows : StoreAt(InitDb(rows))
    /\ LoaderIdle
    /\ ResolverIdle
    /\ RestIdle

LtBegin(p) ==
    \E a \in Accounts, b \in Accounts, c \in InputNames, n \in TransferAmounts,
       conn \in Connect :
        /\ n <= 0 => conn
        /\ Begin(p, [op |-> "transfer_currency", a |-> a, b |-> b, n |-> n, cur |-> c,
                     cmd |-> ""],
                 conn, IF n <= 0 THEN "done" ELSE "lt_ensure_payer", FALSE)

LtEnsurePayer(p) ==
    /\ pc[p] = "lt_ensure_payer"
    /\ FirstStatement(p, EnsureUserExists(db, call[p].a), "lt_ensure_recipient")

LtEnsureRecipient(p) ==
    /\ pc[p] = "lt_ensure_recipient"
    /\ Statement(p, EnsureUserExists(txn[p], call[p].b), "lt_get_balance")

\* get_balance(user_id, currency) of src/database.py, called while the
\* database is d and `free` tells whether the write lock can be had:
\* without a connection, or when its INSERT OR IGNORE INTO users times out
\* on the lock (sqlite3.OperationalError, caught), it returns balance = 0
\* and changes nothing; else it commits its rows and returns the amount.
NestedGetBalance(d, conn, free, u, c) ==
    IF conn /\ free
       THEN GetBalanceAlone(d, [a |-> u, cur |-> c])
       ELSE [db |-> d, ret |-> 0]

\* current_balance = get_balance(payer_id, currency_lower), the
\* insufficient-funds return, and the three statements and the commit that
\* follow on the connection of the transfer, under the lock it holds.
LtGetBalance(p) ==
    /\ pc[p] = "lt_get_balance"
    /\ p \in lock
    /\ \E conn \in Connect :
          LET nested == NestedGetBalance(db, conn, WriteLockFree, call[p].a,
                                         CurrencyLower(p))
              current_balance == nested.ret
              d1 == Debit(txn[p], call[p].a, CurrencyLower(p), call[p].n)
              d2 == InsertZeroRow(d1, call[p].b, CurrencyLower(p))
              d3 == Credit(d2, call[p].b, CurrencyLower(p), call[p].n)
          IN IF Insufficient(current_balance, call[p].n)
                THEN /\ db' = nested.db
                     /\ post' = [post EXCEPT ![p] = db']
                     /\ UNCHANGED ret
                ELSE /\ db' = d3
                     /\ post' = [post EXCEPT ![p] = d3]
                     /\ ret' = [ret EXCEPT ![p] = TRUE]
    /\ lock' = lock \ {p}
    /\ txn' = [txn EXCEPT ![p] = EmptyDb]
    /\ pc' = [pc EXCEPT ![p] = "done"]
    /\ UNCHANGED <<call, err, snap, seen, serial, tally, init0, registry, calls>>

\* One of the two INSERTs into users raises sqlite3.Error.
LtStorageError(p) ==
    /\ pc[p] \in {"lt_ensure_payer", "lt_ensure_recipient"}
    /\ pc[p] = "lt_ensure_recipient" => p \in lock
    /\ Except(p, pc[p])

LegacyNext ==
    \E p \in LegacyProcs :
        \/ LtBegin(p)
        \/ LtEnsurePayer(p)
        \/ LtEnsureRecipient(p)
        \/ LtGetBalance(p)
        \/ LtStorageError(p)
        \/ Return(p)

LegacySpec == LegacyInit /\ [][LegacyNext]_vars

\* ------------------------------------------------------------- properties
RECURSIVE SumOver(_, _, _)
SumOver(S, d, c) ==
    IF S = {} THEN 0
    ELSE LET u == CHOOSE x \in S : TRUE
         IN Amount0(d, u, c) + SumOver(S \ {u}, d, c)

\* The sum of all balances of denomination c in database d.
Total(d, c) == SumOver(Accounts, d, c)

Done(p, op) == pc[p] = "done" /\ call[p].op = op

\* The key of the row p's call is about, computed without str.lower():
\* the names of the model are "tk" and "Tk".
SameIgnoringCase(s, t) ==
    /\ Len(s) = Len(t)
    /\ \A i \in 1..Len(s) :
          \/ s[i] = t[i]
          \/ <<s[i], t[i]>> \in {<<"t", "T">>, <<"T", "t">>, <<"k", "K">>, <<"K", "k">>}

\* The rows of account u in d whose denomination is c up to letter case.
RowsIgnoringCase(d, u, c) ==
    {k \in DOMAIN d.bal : k[1] = u /\ SameIgnoringCase(k[2], c)}

\* ---- C1
\* C1 (conservation): as long as no update_balance call has committed, the
\* sum of all balances of each denomination in the committed database is
\* what it was before the first call, whatever the transfer_currency and
\* get_balance calls did and returned.
C1_Conservation ==
    tally.updates = 0 =>
        \A c \in InputNames : Total(db, c) = Total(init0, c)

\* A transfer has moved money, another call has returned False, and no
\* update_balance ran.
C1_Witness ==
    /\ tally.updates = 0
    /\ \E k \in Keys : tally.spent[k] > 0
    /\ \E p \in Procs : Done(p, "transfer_currency") /\ ret[p] = FALSE /\ call[p].n > 0

\* ---- C2
\* C2 (serializability): the committed database is the one obtained by
\* running the committed calls one after the other in commit order, each
\* returning what it returned; every committed amount is accounted for
\* (balance = initial + credits + adjustments - debits); and the successful
\* transfers out of a balance that received nothing never total more than
\* that balance held before the first call.
C2_Serializable ==
    /\ serial.ok
    /\ db = serial.db
    /\ \A k \in Keys :
          /\ Amount0(db, k[1], k[2]) =
                Amount0(init0, k[1], k[2]) + tally.gained[k] + tally.adjusted[k]
                   - tally.spent[k]
          /\ (tally.gained[k] = 0 /\ tally.adjusted[k] = 0) =>
                tally.spent[k] <= Amount0(init0, k[1], k[2])

\* Two transfers debit the same payer and denomination; each alone was
\* covered by the initial balance; one returned True and the other False
\* for insufficient funds.
C2_Witness ==
    \E p \in Procs : \E q \in Procs \ {p} :
        /\ Done(p, "transfer_currency") /\ Done(q, "transfer_currency")
        /\ call[p].a = call[q].a
        /\ SameIgnoringCase(call[p].cur, call[q].cur)
        /\ ret[p] = TRUE
        /\ ret[q] = FALSE /\ err[q] = "none"
        /\ call[q].n > 0
        /\ call[q].n <= Amount0(init0, call[q].a, NameT)
        /\ tally.updates = 0

\* ---- C3
\* A transfer_currency of q is in progress, or has just returned, on the
\* row the call of p is about.
Overlaps(p, q) ==
    /\ q # p
    /\ call[q].op = "transfer_currency"
    /\ call[p].a \in {call[q].a, call[q].b}
    /\ SameIgnoringCase(call[p].cur, call[q].cur)

\* C3 as stated (isolation): a get_balance on the payer or the recipient
\* of a transfer_currency that runs at the same time, on a store that is
\* itself healthy (connection opened, no statement failing for a reason
\* of the storage), returns an amount that its row had in the committed
\* database at some moment of the call (0 for an absent row).
C3_Original ==
    \A p \in Procs :
        (/\ Done(p, "get_balance")
         /\ err[p] \in {"none", "locked"}
         /\ \E q \in Procs : Overlaps(p, q)) =>
            ret[p] \in seen[p]

\* C3, amended: a get_balance that meets no storage error returns the
\* committed amount of its row at the moment its transaction began, which
\* is an amount the row had during the call; one that fails (no connection,
\* the write lock not obtained within the timeout, a statement or the
\* commit raising) returns 0 or the committed amount it had already read.
C3_Isolation ==
    \A p \in Procs :
        Done(p, "get_balance") =>
            IF err[p] = "none"
               THEN /\ ret[p] \in seen[p]
                    /\ \E k \in RowsIgnoringCase(post[p], call[p].a, call[p].cur) :
                          post[p].bal[k] = ret[p]
                    /\ \A k \in RowsIgnoringCase(snap[p], call[p].a, call[p].cur) :
                          snap[p].bal[k] = ret[p]
               ELSE ret[p] = 0 \/ ret[p] \in seen[p]

\* A get_balance on the payer of a transfer that committed during the
\* call returned the post-transfer amount.
C3_Witness ==
    \E p \in Procs : \E q \in Procs \ {p} :
        /\ Done(p, "get_balance") /\ err[p] = "none"
        /\ call[q].op = "transfer_currency" /\ ret[q] = TRUE
        /\ call[q].a = call[p].a /\ call[q].a # call[q].b
        /\ SameIgnoringCase(call[p].cur, call[q].cur)
        /\ Cardinality(seen[p]) = 2
        /\ snap[p] = post[q]

\* ---- C4
\* C4 (atomicity under failure): a transfer_currency in which a statement
\* or the commit raised after the connection was opened returns False, and
\* the committed database when its transaction ended is the one it found.
C4_AtomicOnFailure ==
    \A p \in Procs :
        (Done(p, "transfer_currency") /\ err[p] \notin {"none", "connect"}) =>
            /\ ret[p] = FALSE
            /\ post[p] = snap[p]

\* The credit UPDATE raised, after the debit UPDATE had been executed.
C4_Witness ==
    \E p \in Procs :
        /\ Done(p, "transfer_currency")
        /\ err[p] = "tc_credit"
        /\ call[p].a # call[p].b

\* ---- C5
\* C5 (insufficient funds): a transfer_currency of a positive amount whose
\* payer held less than the amount (0 without a row) when the transaction
\* began returns False and leaves every balance row as it was.
C5_InsufficientNoOp ==
    \A p \in Procs :
        (/\ Done(p, "transfer_currency")
         /\ call[p].n > 0
         /\ \A k \in RowsIgnoringCase(snap[p], call[p].a, call[p].cur) :
               snap[p].bal[k] < call[p].n) =>
            /\ ret[p] = FALSE
            /\ post[p].bal = snap[p].bal

\* The payer holds something, but less than the amount; nothing raised.
C5_Witness ==
    \E p \in Procs :
        /\ Done(p, "transfer_currency")
        /\ err[p] = "none"
        /\ call[p].a # call[p].b
        /\ \E k \in RowsIgnoringCase(snap[p], call[p].a, call[p].cur) :
              snap[p].bal[k] > 0 /\ snap[p].bal[k] < call[p].n

\* ---- C6
\* C6 (no overdraft): with non-negative balances before the first call and
\* no update_balance committed, no balance row of the committed database is
\* negative, and a transfer that returned True moved its whole amount.
C6_NeverNegative ==
    (tally.updates = 0 /\ \A k \in DOMAIN init0.bal : init0.bal[k] >= 0) =>
        /\ \A k \in DOMAIN db.bal : db.bal[k] >= 0
        /\ \A p \in Procs :
              (Done(p, "transfer_currency") /\ ret[p] = TRUE
                  /\ call[p].a # call[p].b) =>
                 \A k \in RowsIgnoringCase(snap[p], call[p].a, call[p].cur) :
                    post[p].bal[k] = snap[p].bal[k] - call[p].n

\* A transfer took the payer's whole balance: the row is at 0.
C6_Witness ==
    /\ tally.updates = 0
    /\ \E p \in Procs :
          /\ Done(p, "transfer_currency") /\ ret[p] = TRUE
          /\ call[p].a # call[p].b
          /\ Amount0(snap[p], call[p].a, NameT) = call[p].n
          /\ Amount0(post[p], call[p].a, NameT) = 0

\* ---- C7
\* C7 as stated: transfer_currency with payer = recipient returns False
\* and changes nothing.
C7_Original ==
    \A p \in Procs :
        (Done(p, "transfer_currency") /\ call[p].a = call[p].b) =>
            ret[p] = FALSE /\ post[p] = snap[p]

\* C7, amended: transfer_currency with payer = recipient is not refused by
\* the store: it returns True when the amount is positive, the balance
\* covers it and nothing raises, False otherwise; either way every balance
\* row keeps its amount (the debit and the credit cancel).
C7_SelfTransfer ==
    \A p \in Procs :
        (Done(p, "transfer_currency") /\ call[p].a = call[p].b) =>
            /\ post[p].bal = snap[p].bal
            /\ ret[p] = TRUE <=>
                  /\ call[p].n > 0
                  /\ err[p] = "none"
                  /\ \E k \in RowsIgnoringCase(snap[p], call[p].a, call[p].cur) :
                        snap[p].bal[k] >= call[p].n

\* A self-transfer covered by the balance returned True.
C7_Witness ==
    \E p \in Procs :
        /\ Done(p, "transfer_currency")
        /\ call[p].a = call[p].b
        /\ ret[p] = TRUE

\* ---- C8
\* C8 (idempotent zero-creation): get_balance for an account without a
\* users row and without balance rows returns 0; when nothing raised, the
\* users row and the balance row exist afterwards with amount 0 and no
\* other row changed; and a get_balance that finds its rows changes
\* nothing and returns the stored amount (so a second call returns 0
\* again and adds no row).
C8_ZeroCreation ==
    \A p \in Procs :
        Done(p, "get_balance") =>
            LET u == call[p].a
                rows0 == RowsIgnoringCase(snap[p], u, call[p].cur)
                rows1 == RowsIgnoringCase(post[p], u, call[p].cur)
            IN /\ (u \notin snap[p].users /\ \A k \in DOMAIN snap[p].bal : k[1] # u)
                     => ret[p] = 0
               /\ err[p] = "none" =>
                     /\ u \in post[p].users
                     /\ Cardinality(rows1) = 1
                     /\ \A k \in rows1 : post[p].bal[k] = ret[p]
                     /\ \A k \in DOMAIN snap[p].bal :
                           k \in DOMAIN post[p].bal /\ post[p].bal[k] = snap[p].bal[k]
                     /\ DOMAIN post[p].bal \ DOMAIN snap[p].bal \subseteq rows1
                     /\ (u \in snap[p].users /\ rows0 # {}) => post[p] = snap[p]

\* The second get_balance for an account that was unseen before the first
\* call: the row made by the first call is there, no amount has been
\* moved, and the call returns 0 again.
C8_Witness ==
    \E p \in Procs :
        /\ Done(p, "get_balance") /\ err[p] = "none"
        /\ call[p].a \notin init0.users
        /\ RowsIgnoringCase(snap[p], call[p].a, call[p].cur) # {}
        /\ tally = Tally0
        /\ ret[p] = 0
        /\ post[p] = snap[p]

\* ---- C9
\* C9 (case normalization): no balance row, committed or pending, is stored
\* under a name with an upper-case letter, an account has at most one row
\* per name up to letter case, and a get_balance that follows an
\* update_balance of the same account under a name differing at most in
\* letter case returns the earlier amount plus the delta.
C9_CaseNormalized ==
    /\ \A k \in DOMAIN db.bal : ~HasUpper(k[2])
    /\ \A p \in Procs : \A k \in DOMAIN txn[p].bal : ~HasUpper(k[2])
    /\ \A u \in Accounts, c \in InputNames :
          Cardinality(RowsIgnoringCase(db, u, c)) <= 1
    /\ \A p \in Procs, q \in Procs :
          (/\ Done(p, "update_balance") /\ err[p] = "none"
           /\ Done(q, "get_balance") /\ err[q] = "none"
           /\ call[p].a = call[q].a
           /\ SameIgnoringCase(call[p].cur, call[q].cur)
           /\ snap[q] = post[p]) =>
              \E k \in RowsIgnoringCase(post[p], call[p].a, call[p].cur) :
                 /\ ret[q] = post[p].bal[k]
                 /\ \A k0 \in RowsIgnoringCase(snap[p], call[p].a, call[p].cur) :
                       ret[q] = snap[p].bal[k0] + call[p].n
                 /\ RowsIgnoringCase(snap[p], call[p].a, call[p].cur) = {} =>
                       ret[q] = call[p].n

\* update_balance(A, "Tk", MaxAmount) on an account without rows, then
\* get_balance(A, "tk") returning MaxAmount.
C9_Witness ==
    \E p \in Procs, q \in Procs :
        /\ Done(p, "update_balance") /\ err[p] = "none"
        /\ Done(q, "get_balance") /\ err[q] = "none"
        /\ call[p].a = call[q].a
        /\ call[p].cur = NameTUpper /\ call[q].cur = NameT
        /\ call[p].n = MaxAmount
        /\ DOMAIN snap[p].bal = {}
        /\ snap[q] = post[p]
        /\ ret[q] = MaxAmount

\* ---- C10
\* C10 (update_balance): an update_balance that committed left the users
\* row and exactly one balance row for its account and name, holding the
\* earlier amount (0 without a row) plus the delta, negative or not, and
\* changed no other row; and every committed delta is in the committed
\* amount (amount = initial + all deltas and transfers committed).
C10_UpdateAdds ==
    /\ \A p \in Procs :
          (Done(p, "update_balance") /\ err[p] = "none") =>
             LET u == call[p].a
                 rows0 == RowsIgnoringCase(snap[p], u, call[p].cur)
                 rows1 == RowsIgnoringCase(post[p], u, call[p].cur)
             IN /\ u \in post[p].users
                /\ Cardinality(rows1) = 1
                /\ \A k \in rows1 :
                      /\ rows0 = {} => post[p].bal[k] = call[p].n
                      /\ \A k0 \in rows0 : post[p].bal[k] = snap[p].bal[k0] + call[p].n
                /\ \A k \in DOMAIN snap[p].bal \ rows0 :
                      k \in DOMAIN post[p].bal /\ post[p].bal[k] = snap[p].bal[k]
                /\ DOMAIN post[p].bal \ DOMAIN snap[p].bal \subseteq rows1
    /\ \A u \in Accounts :
          Amount0(db, u, NameT) + Amount0(db, u, NameTUpper) =
             Amount0(init0, u, NameT)
                + tally.adjusted[<<u, NameT>>] + tally.adjusted[<<u, NameTUpper>>]
                + tally.gained[<<u, NameT>>] + tally.gained[<<u, NameTUpper>>]
                - tally.spent[<<u, NameT>>] - tally.spent[<<u, NameTUpper>>]

\* Two update_balance calls on one row, begun before either committed,
\* both committed, and the row is negative.
C10_Witness ==
    \E p \in Procs : \E q \in Procs \ {p} :
        /\ Done(p, "update_balance") /\ err[p] = "none"
        /\ Done(q, "update_balance") /\ err[q] = "none"
        /\ call[p].a = call[q].a
        /\ snap[q] = post[p]
        /\ Cardinality(seen[q]) = 2
        /\ \E k \in DOMAIN post[q].bal : post[q].bal[k] < 0 /\ db.bal[k] < 0

\* ---- C11
\* The errors of a call that could not reach the database: no connection,
\* or its first statement raised (the lock timeout included).
Unreachable == {"connect", "locked"} \cup FirstPcs \cup ReadPcs

Returned(p) == pc[p] \in {"done", "raised"}

\* C11 (store unreachable): a ledger or counter call that got no connection,
\* or whose first statement failed, returns to its caller without raising;
\* get_balance returns 0, transfer_currency False, get_all_command_usage the
\* empty map, and the committed database is what it was (update_balance,
\* track_command_usage and reset_all_command_usage have had no effect).
C11_FailureValue ==
    \A p \in Procs :
        (Returned(p) /\ err[p] \in Unreachable) =>
            /\ pc[p] = "done"
            /\ call[p].op = "get_balance" => ret[p] = 0
            /\ call[p].op = "transfer_currency" => ret[p] = FALSE
            /\ call[p].op = "get_all_command_usage" => DOMAIN ret[p] = {}
            /\ post[p] = snap[p]

\* A get_all_command_usage without a connection while the counters are not
\* empty, next to an update_balance whose first statement failed.
C11_Witness ==
    \E p \in Procs : \E q \in Procs \ {p} :
        /\ Done(p, "get_all_command_usage")
        /\ err[p] = "connect"
        /\ DOMAIN db.usage # {}
        /\ Done(q, "update_balance")
        /\ err[q] = "ub_ensure"

\* ---- C12
\* C12 (reset preserves keys): a get_all_command_usage that reads after a
\* reset_all_command_usage has committed, with no track_command_usage
\* committed, returns a map that still has every command name the counters
\* had before the reset, each with count 0.
C12_ResetKeepsKeys ==
    \A q \in Procs :
        (/\ Done(q, "get_all_command_usage")
         /\ err[q] = "none"
         /\ tally.resets > 0
         /\ \A name \in CommandNames : tally.tracked[name] = 0
         /\ post[q] = db) =>
            \A name \in DOMAIN init0.usage :
                /\ name \in DOMAIN ret[q]
                /\ ret[q][name] = 0

\* ---- C13
\* The count a usage map gives for a command, 0 when the key is absent.
CountIn(m, name) == IF name \in DOMAIN m THEN m[name] ELSE 0

\* C13 (no lost increment): as long as no reset has committed, the stored
\* count of every command is its count before the first call plus the
\* number of track_command_usage calls committed for it, however the calls
\* interleaved; a get_all_command_usage that read this database returns
\* that count, and has the key of every command tracked at least once.
C13_NoLostIncrement ==
    tally.resets = 0 =>
        \A name \in CommandNames :
            /\ Count0(db, name) = Count0(init0, name) + tally.tracked[name]
            /\ \A q \in Procs :
                  (/\ Done(q, "get_all_command_usage")
                   /\ err[q] = "none"
                   /\ post[q] = db) =>
                      /\ CountIn(ret[q], name)
                            = Count0(init0, name) + tally.tracked[name]
                      /\ tally.tracked[name] > 0 => name \in DOMAIN ret[q]

\* Two track_command_usage("pay") calls of two connections have both
\* committed, the second on top of the first, on an existing row.
C13_Witness ==
    \E p \in Procs : \E q \in Procs \ {p} :
        /\ Done(p, "track_command_usage")
        /\ Done(q, "track_command_usage")
        /\ call[p].cmd = "pay"
        /\ call[q].cmd = "pay"
        /\ err[p] = "none"
        /\ err[q] = "none"
        /\ snap[p] = init0
        /\ post[p] = snap[q]
        /\ Count0(init0, "pay") > 0
        /\ Count0(db, "pay") = Count0(init0, "pay") + 2

\* ---- C14
\* C14 (tracking never fails visibly): whatever happens to the storage
\* during a track_command_usage call (no connection, the statement failing,
\* the write lock not obtained in time, the commit failing), the call
\* returns to its caller and no exception leaves it.
C14_TrackNeverRaises ==
    \A p \in Procs :
        call[p].op = "track_command_usage" => pc[p] # "raised"

\* One track_command_usage gave up waiting for the write lock that another
\* track_command_usage held, and the commit of that other one failed.
C14_Witness ==
    \E p \in Procs : \E q \in Procs \ {p} :
        /\ Done(p, "track_command_usage")
        /\ err[p] = "locked"
        /\ Done(q, "track_command_usage")
        /\ err[q] = "commit"

\* ---- C15
\* The modules load_all_cogs has to load: the directories of the listing
\* that are neither "__"-prefixed nor excluded.
Discovered ==
    {n \in DOMAIN cogs_dir.entries :
        /\ cogs_dir.entries[n] = "dir"
        /\ ~StartsWithDunder(n)
        /\ n \notin excluded_cogs}

LoadOver == lpc \in {"returned", "raised"}

\* C15 (partial load failure): once load_all_cogs is over on a directory it
\* could list, every discovered module has been attempted; the ones whose
\* load raised are logged as failed and all the others, before and after
\* them in load order, as loaded.
C15_PartialFailure ==
    (LoadOver /\ cogs_dir.state = "listed") =>
        \A n \in Discovered :
            /\ n \in DOMAIN status
            /\ status[n] = IF n \in broken THEN "failed" ELSE "loaded"

\* Three modules were attempted; the second raised and the first and the
\* third are loaded.
C15_Witness ==
    /\ lpc = "returned"
    /\ Len(attempted) = 3
    /\ status[attempted[1]] = "loaded"
    /\ status[attempted[2]] = "failed"
    /\ status[attempted[3]] = "loaded"

\* ---- C16
\* C16 (the load step never raises): whatever the cogs directory is
\* (missing, unreadable, empty, holding broken modules), load_all_cogs
\* returns, and the count it reports is the number of modules logged as
\* loaded.
C16_NeverRaises ==
    /\ lpc # "raised"
    /\ lpc = "returned" =>
          loaded_count = Cardinality({n \in DOMAIN status : status[n] = "loaded"})

\* ---- C17
\* The names attempted so far.
Attempted == {attempted[i] : i \in DOMAIN attempted}

\* Each name attempted once, in ascending order of Python's str comparison.
AttemptedAscending ==
    \A i \in DOMAIN attempted : \A j \in DOMAIN attempted :
        i < j => StrLess(attempted[i], attempted[j])

\* C17 as stated (load order): when load_all_cogs returns it has attempted
\* exactly the directories of the listing that are not excluded, once each
\* and in ascending order; no other directory was skipped.
C17_Original ==
    lpc = "returned" =>
        /\ Attempted = {n \in DOMAIN cogs_dir.entries :
                           cogs_dir.entries[n] = "dir" /\ n \notin excluded_cogs}
        /\ AttemptedAscending

\* C17 (load order, amended): the names attempted are always directories of
\* the listing that are neither excluded nor "__"-prefixed, each attempted
\* once and in ascending order; when load_all_cogs returns, every such
\* directory has been attempted.
C17_LoadOrder ==
    /\ Attempted \subseteq Discovered
    /\ AttemptedAscending
    /\ lpc = "returned" => Attempted = Discovered

\* load_all_cogs returned on a listing with a file, the excluded directory
\* and a "__"-prefixed directory, after attempting "Z" and then "bank".
C17_Witness ==
    /\ lpc = "returned"
    /\ \E n \in DOMAIN cogs_dir.entries : cogs_dir.entries[n] = "file"
    /\ \E n \in DOMAIN cogs_dir.entries :
          cogs_dir.entries[n] = "dir" /\ StartsWithDunder(n)
    /\ \E n \in DOMAIN cogs_dir.entries :
          cogs_dir.entries[n] = "dir" /\ n \in excluded_cogs
    /\ attempted = << <<"Z">>, <<"b", "a", "n", "k">> >>

\* ---- C18
\* C18 (merge precedence): BaseCog._load_config on a config.json that holds
\* an object resolves every key of the file to the file's value, every key
\* of default_config() the file lacks to the default's value, and nothing
\* else.
C18_MergePrecedence ==
    (/\ cfgOut.outcome # "none"
     /\ cfgIn.cog \notin StandaloneCogs
     /\ cfgIn.file.kind = "object") =>
        LET file == cfgIn.file.map
            default == default_config(cfgIn.env)
        IN /\ cfgOut.outcome = "config"
           /\ DOMAIN cfgOut.config = DOMAIN file \cup DOMAIN default
           /\ \A k \in DOMAIN file : cfgOut.config[k] = file[k]
           /\ \A k \in DOMAIN default \ DOMAIN file : cfgOut.config[k] = default[k]

\* The file sets color (to another value than the default) and a key the
\* defaults do not have, and leaves footer_text to the defaults.
C18_Witness ==
    /\ cfgOut.outcome = "config"
    /\ cfgIn.cog \notin StandaloneCogs
    /\ cfgIn.file.kind = "object"
    /\ DOMAIN cfgIn.file.map = {"color", "prefix"}
    /\ cfgIn.file.map["color"] # default_config(cfgIn.env).color
    /\ cfgOut.config["footer_text"] = "Task Manager Bot"

\* ---- C19
\* C19 (defaults on a bad file): when config.json is absent or does not
\* parse into a mapping, _load_config does not raise and the configuration
\* is the cog's defaults, unchanged.
C19_DefaultsOnBadFile ==
    (cfgOut.outcome # "none" /\ cfgIn.file.kind # "object") =>
        /\ cfgOut.outcome = "config"
        /\ cfgOut.config = Defaults(cfgIn.cog, cfgIn.env)

\* ---- C20
\* C20 (footer icon fallback): in every cog, with or without a config file,
\* the resolved footer_icon_url is the file's value when the file has the
\* key, else ICON_URL_FOOTER when it is set, else the empty string; it is
\* never absent and never None.
C20_FooterFallback ==
    cfgOut.outcome = "config" =>
        /\ "footer_icon_url" \in DOMAIN cfgOut.config
        /\ cfgOut.config["footer_icon_url"] =
              IF "footer_icon_url" \in DOMAIN cfgIn.file.map
                 THEN cfgIn.file.map["footer_icon_url"]
                 ELSE IF cfgIn.env # None THEN cfgIn.env ELSE ""
        /\ cfgOut.config["footer_icon_url"] # None

\* ---- C24
LedgerOps == {"get_balance", "update_balance", "transfer_currency"}

\* C24 (implicit account creation): a ledger call that returns without any
\* storage error (a transfer_currency of a positive amount rejected for
\* insufficient funds included) leaves a users row for every account it
\* names, and no users row the database had before the first call is ever
\* missing from the committed database.
C24_ImplicitAccount ==
    /\ \A p \in Procs :
          (/\ pc[p] = "done"
           /\ call[p].op \in LedgerOps
           /\ err[p] = "none"
           /\ call[p].op = "transfer_currency" => call[p].n > 0) =>
              {call[p].a, call[p].b} \subseteq post[p].users
    /\ init0.users \subseteq db.users

\* ---- C25
\* C25 (referential integrity, key uniqueness): in every committed
\* database, every balance row belongs to an account that has a users row,
\* and an account has at most one balance row per denomination (names
\* compared as the store compares them after str.lower()).
C25_Integrity ==
    /\ \A k \in DOMAIN db.bal : k[1] \in db.users
    /\ \A u \in Accounts, c \in InputNames :
          Cardinality(RowsIgnoringCase(db, u, c)) <= 1

\* Two calls of different processes have committed, one of them under the
\* upper-case name, and an account unknown before the first call has a
\* balance row.
C25_Witness ==
    /\ \E u \in Accounts \ init0.users :
          \E k \in DOMAIN db.bal : k[1] = u
    /\ \E p \in Procs : \E q \in Procs \ {p} :
          /\ Done(p, "update_balance") /\ err[p] = "none"
          /\ call[p].cur = NameTUpper
          /\ Done(q, "transfer_currency") /\ ret[q] = TRUE
          /\ call[q].a # call[q].b

\* ---- C30
\* C30 (every exit path closes): a ledger or usage-counter call that has
\* returned, or raised, holds no write lock and has no transaction open,
\* and the committed database when its transaction ended is either the one
\* it found (all its writes discarded) or the one with all the writes of
\* the call (all committed).
C30_ClosedOnExit ==
    \A p \in Procs :
        (pc[p] = "idle" \/ Returned(p)) =>
            /\ p \notin lock
            /\ txn[p] = EmptyDb
            /\ Returned(p) =>
                  \/ post[p] = snap[p]
                  \/ /\ call[p].op # "get_all_command_usage"
                     /\ post[p] = Alone(snap[p], call[p]).db

\* A transfer_currency has returned False for insufficient funds, after
\* its two INSERTs into users, and a usage-counter call has returned after
\* a storage error.
C30_Witness ==
    \E p \in Procs : \E q \in Procs \ {p} :
        /\ Done(p, "transfer_currency")
        /\ err[p] = "none" /\ ret[p] = FALSE /\ call[p].n > 0
        /\ call[p].b \notin post[p].users
        /\ Returned(q)
        /\ call[q].op \in {"track_command_usage", "reset_all_command_usage"}
        /\ err[q] \notin {"none", "connect"}

\* ---- C21
\* C21 (binding failure tolerated): when the configuration names a
\* database_module and the module is absent, fails while loading, has no
\* initialize_tables or has one that raises, _load_db_module returns None
\* (self.db is None) and raises nothing, so the constructor goes on.
C21_BindFailureTolerated ==
    (/\ bound.outcome # "none"
     /\ DictGet(cfgOut.config, "database_module", None) # None
     /\ ext # "ok") =>
        /\ bound.outcome = "returned"
        /\ bound.db = None

\* ---- C27
\* The keys _create_embed reads with self.config[...] in each standalone cog.
RenderKeys(cog) ==
    CASE cog = "stats" -> {"author_name"}
      [] OTHER -> {"author_name", "author_icon_url", "footer_text", "footer_icon_url"}

\* C27 (standalone cogs merge their defaults): in CentralBank, Stats and
\* Information, a config.json holding an object resolves to the file's
\* mapping plus every key of the cog's compiled defaults the file omits,
\* so every key _create_embed indexes is present.
C27_StandaloneDefaults ==
    (/\ cfgOut.outcome = "config"
     /\ cfgIn.cog \in StandaloneCogs
     /\ cfgIn.file.kind = "object") =>
        LET file == cfgIn.file.map
            default == FallbackConfig(cfgIn.cog, cfgIn.env)
        IN /\ \A k \in DOMAIN file : cfgOut.config[k] = file[k]
           /\ DOMAIN default \subseteq DOMAIN cfgOut.config
           /\ RenderKeys(cfgIn.cog) \subseteq DOMAIN cfgOut.config

\* ---- C22
\* C22 (schema initialization is idempotent): whatever initializers are
\* called, in whatever order and however often, none raises, no table
\* exists more than once, a call that succeeds leaves its table existing,
\* a repeated successful call changes nothing, and every row of users,
\* balances and command_usage is what it was.
C22_SchemaIdempotent ==
    /\ \A i \in DOMAIN booted :
          /\ booted[i].outcome # "raised"
          /\ booted[i].outcome = "ok" => booted[i].after[TableOf(booted[i].fn)] = 1
    /\ \A i \in DOMAIN booted, j \in DOMAIN booted :
          (i < j /\ booted[i].outcome = "ok") =>
             booted[j].after[TableOf(booted[i].fn)] = 1
    /\ \A t \in TableNames : schema[t] <= 1
    /\ db = init0

\* initialize_tables of central_bank has succeeded twice on a database
\* whose balances table held a row, and another initializer has failed.
C22_Witness ==
    /\ Len(booted) = MaxBoots
    /\ DOMAIN db.bal # {}
    /\ \E i \in DOMAIN booted, j \in DOMAIN booted :
          /\ i < j
          /\ booted[i].fn = "cb_initialize_tables" /\ booted[i].outcome = "ok"
          /\ booted[j].fn = "cb_initialize_tables" /\ booted[j].outcome = "ok"
    /\ \E i \in DOMAIN booted : booted[i].outcome = "logged"

\* ---- C23
\* C23 (degraded mode): an invocation served while the Stats cog has no
\* database module (self.db is None) tracks no usage, and stats and
\* reset-stats call no store function at all and reply with the "not
\* configured" Command Error.
C23_DegradedMode ==
    (inv.at = "completed" /\ ~stats_db) =>
        /\ \A i \in DOMAIN inv.ops : inv.ops[i] # "track_command_usage"
        /\ db.usage = inv.db0.usage
        /\ inv.name \in {"stats", "reset-stats"} =>
              inv.ops = <<>> /\ inv.reply = "Command Error"

\* ---- C28
\* C28 (tallied once): with the Stats cog bound to its database module and
\* no store function failing, a completed invocation of balance, pay,
\* award, info or stats leaves that command's usage count one above what
\* it was when the invocation began.
C28_TalliedOnce ==
    (/\ inv.at = "completed"
     /\ stats_db
     /\ ~inv.faulty
     /\ inv.name \in {"balance", "pay", "award", "info", "stats"}) =>
        CountIn(db.usage, inv.name) = CountIn(inv.db0.usage, inv.name) + 1

\* ---- C29
\* C29 (award reports the truth): an award that replied "Currency Awarded"
\* has added amount to the recipient's balance of the denomination.
C29_AwardReported ==
    (/\ inv.at \in {"completion", "completed"}
     /\ inv.name = "award"
     /\ inv.reply = "Currency Awarded") =>
        Amount0(db, inv.recipient, Lower(inv.currency)) =
           Amount0(inv.db0, inv.recipient, Lower(inv.currency)) + inv.amount

\* ---- C26
\* C26 (transfer_currency of src/database.py): used by one process alone,
\* with payer and recipient distinct, a positive amount, a payer balance
\* that covers it and nothing raising, the call returns True and the
\* payer's row is lower and the recipient's row higher by the amount.
C26_LegacyTransfer ==
    \A p \in LegacyProcs :
        (/\ Done(p, "transfer_currency")
         /\ err[p] = "none"
         /\ call[p].a # call[p].b
         /\ call[p].n > 0
         /\ Amount0(snap[p], call[p].a, CurrencyLower(p)) >= call[p].n) =>
            /\ ret[p] = TRUE
            /\ Amount0(post[p], call[p].a, CurrencyLower(p)) =
                  Amount0(snap[p], call[p].a, CurrencyLower(p)) - call[p].n
            /\ Amount0(post[p], call[p].b, CurrencyLower(p)) =
                  Amount0(snap[p], call[p].b, CurrencyLower(p)) + call[p].n
====
